---- MODULE Spec2Model ----
(***************************************************************************)
(* CHIP-8 instruction engine (chip8.c): the machine state `struct chip8`,  *)
(* chip8_fetch and the opcode handlers instr_*.  The machine is driven the *)
(* way the handlers' header comments describe the instruction set: a word  *)
(* is fetched at pc, its nibbles select a handler and its operands, and    *)
(* the handler is applied to the machine.                                  *)
(*                                                                         *)
(* Integers keep their C width: u8 fields are reduced mod 256, u16 fields  *)
(* mod 65536.  An array access outside its array is undefined behaviour    *)
(* in C; it is modelled as a choice between the outcomes a build can       *)
(* produce (see Builds below).                                             *)
(***************************************************************************)
EXTENDS Integers, Sequences, FiniteSets, TLC

VARIABLES
    ch8,      \* the machine: a record with the fields of struct chip8
    prev,     \* the machine as it was before the last step (history)
    phase,    \* "fetch": the driver fetches next; "exec": `ir` awaits its handler
    ir,       \* the instruction chip8_fetch returned last
    hist,     \* the last HistLen executed instructions, oldest first (history)
    calls,    \* number of 2nnn handlers executed since construction (history)
    rets,     \* number of 00EE handlers executed since construction (history)
    build,    \* outcome of out-of-range accesses, "unknown" until the first one
    pending,  \* return addresses of the CALLs not yet returned from (history)
    stray     \* number of fetches made outside memory[] so far (history)

vars == <<ch8, prev, phase, ir, hist, calls, rets, build, pending, stray>>

----------------------------------------------------------------------------
(* Program constants                                                       *)

MEMORY_SIZE == 4096
PROGRAM_START_ADDRESS == 512
DISPLAY_HEIGHT == 32
DISPLAY_LENGTH == 64
STACK_SIZE == 16
NUM_REGS == 16
NUM_KEYS == 16

DISPLAY_BYTES == (DISPLAY_HEIGHT * DISPLAY_LENGTH) \div 8

U8(n) == n % 256
U16(n) == n % 65536

Regs == 0 .. (NUM_REGS - 1)

----------------------------------------------------------------------------
(* C's bitwise operators on non-negative integers                          *)

RECURSIVE BitAnd(_, _)
BitAnd(a, b) ==
    IF a = 0 \/ b = 0 THEN 0
    ELSE (a % 2) * (b % 2) + 2 * BitAnd(a \div 2, b \div 2)

RECURSIVE BitOr(_, _)
BitOr(a, b) ==
    IF a = 0 THEN b
    ELSE IF b = 0 THEN a
    ELSE (IF a % 2 = 1 \/ b % 2 = 1 THEN 1 ELSE 0) + 2 * BitOr(a \div 2, b \div 2)

RECURSIVE BitXor(_, _)
BitXor(a, b) ==
    IF a = 0 THEN b
    ELSE IF b = 0 THEN a
    ELSE (((a % 2) + (b % 2)) % 2) + 2 * BitXor(a \div 2, b \div 2)

Shl(a, n) == IF n = 0 THEN a ELSE a * (2 ^ n)
Shr(a, n) == a \div (2 ^ n)

----------------------------------------------------------------------------
(* Out-of-range accesses.  stack[sp] with sp > 15 and memory[pc] with       *)
(* pc >= MEMORY_SIZE are undefined behaviour.  A build either places the    *)
(* access on the bytes that follow the array in struct chip8 ("adjacent":   *)
(* V[] follows memory[], keypad[] and display[] follow stack[], a u16 is    *)
(* stored low byte first) or somewhere that is no field of the machine      *)
(* ("elsewhere": a write changes no field, a read yields an arbitrary       *)
(* value).  The outcome is fixed by the first out-of-range access.          *)

Builds == {"adjacent", "elsewhere"}

\* values an out-of-range read can yield when it reads no field of the machine
UBBytes == {0, 255}
UBWords == {0, 65535}

BuildChoices == IF build = "unknown" THEN Builds ELSE {build}

\* memory[] and display[] are kept sparsely, as a map from some of the indices
\* to bytes: a byte that is not in the map is 0.  display[] maps its non-zero
\* bytes only, so that equal displays are equal maps.
At(f, i) == IF i \in DOMAIN f THEN f[i] ELSE 0

Put(f, i, v) ==
    IF v = 0 THEN [j \in DOMAIN f \ {i} |-> f[j]]
    ELSE [j \in DOMAIN f \cup {i} |-> IF j = i THEN v ELSE f[j]]

\* memset(f, 0, n)
Memset0(f, n) == [j \in {i \in DOMAIN f : i >= n} |-> f[j]]

MemAt(c, a) == At(c.memory, a)

MemOOB(a) == a >= MEMORY_SIZE

\* memory[a] as the fetch reads it; u is the byte a read of no field yields
MemRead(c, a, b, u) ==
    IF ~MemOOB(a) THEN MemAt(c, a)
    ELSE IF b = "adjacent" /\ a - MEMORY_SIZE < NUM_REGS THEN c.V[a - MEMORY_SIZE]
    ELSE u

StackOOB(i) == i >= STACK_SIZE

\* byte k of the fields that follow stack[] in struct chip8: keypad[], display[]
AfterStackByte(c, k) ==
    IF k < NUM_KEYS THEN c.keypad[k] ELSE At(c.display, k - NUM_KEYS)

AfterStackSize == NUM_KEYS + DISPLAY_BYTES

\* stack[i] as 00EE reads it; u is the word a read of no field yields
StackRead(c, i, b, u) ==
    IF ~StackOOB(i) THEN c.stack[i]
    ELSE LET k == 2 * (i - STACK_SIZE)
         IN IF b = "adjacent" /\ k + 1 < AfterStackSize
            THEN AfterStackByte(c, k) + 256 * AfterStackByte(c, k + 1)
            ELSE u

PutAfterStack(c, k, byte) ==
    IF k < NUM_KEYS THEN [c EXCEPT !.keypad[k] = byte]
    ELSE [c EXCEPT !.display = Put(c.display, k - NUM_KEYS, byte)]

\* stack[i] = v as 2nnn writes it
StackWrite(c, i, v, b) ==
    IF ~StackOOB(i) THEN [c EXCEPT !.stack[i] = v]
    ELSE LET k == 2 * (i - STACK_SIZE)
         IN IF b = "adjacent" /\ k + 1 < AfterStackSize
            THEN PutAfterStack(PutAfterStack(c, k, (v % 256)), k + 1, (v \div 256))
            ELSE c

----------------------------------------------------------------------------
(* chip8_fetch and the opcode handlers, as functions of the machine        *)

\* mutation of chip8_fetch: memory[pc] taken as the low byte
chip8_fetch_low_byte_first(c, b, u1, u2) ==
    LET instruction == U16(BitOr(Shl(MemRead(c, c.pc + 1, b, u2), 8),
                                 MemRead(c, c.pc, b, u1)))
    IN [ch8 |-> [c EXCEPT !.pc = U16(c.pc + 2)], instruction |-> instruction]

\* returns the machine after the call and the instruction returned
chip8_fetch(c, b, u1, u2) ==
    LET instruction == U16(BitOr(Shl(MemRead(c, c.pc, b, u1), 8),
                                 MemRead(c, c.pc + 1, b, u2)))
    IN [ch8 |-> [c EXCEPT !.pc = U16(c.pc + 2)], instruction |-> instruction]

instr_0nnn(c, nnn) == c

\* mutation of instr_00e0_cls: the memset stops one byte short
instr_00e0_cls_short(c) == [c EXCEPT !.display = Memset0(c.display, DISPLAY_BYTES - 1)]

instr_00e0_cls(c) == [c EXCEPT !.display = Memset0(c.display, DISPLAY_BYTES)]

\* mutation of instr_00ee_ret: sp is decremented before the stack is read
instr_00ee_ret_predecrement(c, b, u) ==
    LET c1 == [c EXCEPT !.sp = U8(c.sp - 1)]
    IN [c1 EXCEPT !.pc = StackRead(c1, c1.sp, b, u)]

instr_00ee_ret(c, b, u) ==
    [c EXCEPT !.pc = StackRead(c, c.sp, b, u), !.sp = U8(c.sp - 1)]

instr_1nnn_jp_addr(c, nnn) == [c EXCEPT !.pc = nnn]

\* mutation of instr_2nnn_call_addr: pc is stored before sp is incremented
instr_2nnn_call_addr_postincrement(c, nnn, b) ==
    LET c1 == StackWrite(c, c.sp, c.pc, b)
        c2 == [c1 EXCEPT !.sp = U8(c.sp + 1)]
    IN [c2 EXCEPT !.pc = nnn]

instr_2nnn_call_addr(c, nnn, b) ==
    LET c1 == [c EXCEPT !.sp = U8(c.sp + 1)]
        c2 == StackWrite(c1, c1.sp, c1.pc, b)
    IN [c2 EXCEPT !.pc = nnn]

\* mutation of instr_3xkk_se_vx_byte: the comparison of 4xkk
instr_3xkk_se_vx_byte_inverted(c, x, kk) ==
    IF c.V[x] # kk THEN [c EXCEPT !.pc = U16(c.pc + 2)] ELSE c

instr_3xkk_se_vx_byte(c, x, kk) ==
    IF c.V[x] = kk THEN [c EXCEPT !.pc = U16(c.pc + 2)] ELSE c

instr_4xkk_sne_vx_byte(c, x, kk) ==
    IF c.V[x] # kk THEN [c EXCEPT !.pc = U16(c.pc + 2)] ELSE c

instr_5xy0_se_vx_vy(c, x, y) ==
    IF c.V[x] = c.V[y] THEN [c EXCEPT !.pc = U16(c.pc + 2)] ELSE c

instr_6xkk_ld_vx_byte(c, x, kk) == [c EXCEPT !.V[x] = kk]

\* mutation of instr_7xkk_add_vx_byte: the carry is written to V[F] as 8xy4 does
instr_7xkk_add_vx_byte_carry(c, x, kk) ==
    LET c1 == [c EXCEPT !.V[15] = IF c.V[x] + kk > 255 THEN 1 ELSE 0]
    IN [c1 EXCEPT !.V[x] = U8(c.V[x] + kk)]

instr_7xkk_add_vx_byte(c, x, kk) == [c EXCEPT !.V[x] = U8(c.V[x] + kk)]

instr_8xy0_ld_vx_vy(c, x, y) == [c EXCEPT !.V[x] = c.V[y]]

instr_8xy1_or_vx_vy(c, x, y) == [c EXCEPT !.V[x] = BitOr(c.V[x], c.V[y])]

instr_8xy2_and_vx_vy(c, x, y) == [c EXCEPT !.V[x] = BitAnd(c.V[x], c.V[y])]

instr_8xy3_xor_vx_vy(c, x, y) == [c EXCEPT !.V[x] = BitXor(c.V[x], c.V[y])]

\* mutation of instr_8xy4_add_vx_vy: sum declared u8, so the carry is lost
instr_8xy4_add_vx_vy_u8_sum(c, x, y) ==
    LET sum == U8(c.V[x] + c.V[y])
        c1 == [c EXCEPT !.V[15] = IF sum > 255 THEN 1 ELSE 0]
    IN [c1 EXCEPT !.V[x] = U8(sum)]

instr_8xy4_add_vx_vy(c, x, y) ==
    LET sum == U16(c.V[x] + c.V[y])
        c1 == [c EXCEPT !.V[15] = IF sum > 255 THEN 1 ELSE 0]
    IN [c1 EXCEPT !.V[x] = U8(sum)]

instr_8xy5_sub_vx_vy(c, x, y) ==
    LET c1 == [c EXCEPT !.V[15] = IF c.V[x] > c.V[y] THEN 1 ELSE 0]
    IN [c1 EXCEPT !.V[x] = U8(c1.V[x] - c1.V[y])]

instr_8xy6_shr_vx(c, x) ==
    LET c1 == [c EXCEPT !.V[15] = BitAnd(c.V[x], 1)]
    IN [c1 EXCEPT !.V[x] = Shr(c1.V[x], 1)]

instr_8xy7_subn_vx_vy(c, x, y) ==
    LET c1 == [c EXCEPT !.V[15] = IF c.V[y] > c.V[x] THEN 1 ELSE 0]
    IN [c1 EXCEPT !.V[x] = U8(c1.V[y] - c1.V[x])]

\* mutation of instr_8xye_shl_vx: the flag is taken after the shift
instr_8xye_shl_vx_flag_after(c, x) ==
    LET c1 == [c EXCEPT !.V[x] = U8(Shl(c.V[x], 1))]
    IN [c1 EXCEPT !.V[15] = BitAnd(Shr(c1.V[x], 7), 1)]

instr_8xye_shl_vx(c, x) ==
    LET c1 == [c EXCEPT !.V[15] = BitAnd(Shr(c.V[x], 7), 1)]
    IN [c1 EXCEPT !.V[x] = U8(Shl(c1.V[x], 1))]

instr_9xy0_sne_vx_vy(c, x, y) ==
    IF c.V[x] # c.V[y] THEN [c EXCEPT !.pc = U16(c.pc + 2)] ELSE c

instr_annn_ld_i_addr(c, nnn) == [c EXCEPT !.I = nnn]

instr_bnnn_jp_v0_addr(c, nnn) == [c EXCEPT !.pc = U16(nnn + c.V[0])]

\* byte is what get_random_byte() returned
cxkk_rnd_vx_byte(c, x, kk, byte) == [c EXCEPT !.V[x] = BitAnd(byte, kk)]

\* what a handler reports to its caller: every handler returns void
HandlerResult == "none"

----------------------------------------------------------------------------
(* Decoding.  The repository holds no dispatcher; the opcode patterns are   *)
(* those of the handlers' header comments ("3xkk - SE Vx, byte", ...): the  *)
(* top nibble selects the family, x, y, kk and nnn are the nibble fields.   *)

OpTop(w) == w \div 4096
OpX(w) == (w \div 256) % 16
OpY(w) == (w \div 16) % 16
OpN(w) == w % 16
OpKK(w) == w % 256
OpNNN(w) == w % 4096

Alu8 == [n \in 0 .. 15 |->
            CASE n = 0 -> "8xy0" [] n = 1 -> "8xy1" [] n = 2 -> "8xy2"
              [] n = 3 -> "8xy3" [] n = 4 -> "8xy4" [] n = 5 -> "8xy5"
              [] n = 6 -> "8xy6" [] n = 7 -> "8xy7" [] n = 14 -> "8xye"
              [] OTHER -> "unrecognized"]

Decode(w) ==
    LET t == OpTop(w)
    IN CASE t = 0 -> (IF w = 224 THEN "00e0" ELSE IF w = 238 THEN "00ee" ELSE "0nnn")
         [] t = 1 -> "1nnn"
         [] t = 2 -> "2nnn"
         [] t = 3 -> "3xkk"
         [] t = 4 -> "4xkk"
         [] t = 5 -> (IF OpN(w) = 0 THEN "5xy0" ELSE "unrecognized")
         [] t = 6 -> "6xkk"
         [] t = 7 -> "7xkk"
         [] t = 8 -> Alu8[OpN(w)]
         [] t = 9 -> (IF OpN(w) = 0 THEN "9xy0" ELSE "unrecognized")
         [] t = 10 -> "annn"
         [] t = 11 -> "bnnn"
         [] t = 12 -> "cxkk"
         [] OTHER -> "unrecognized"

----------------------------------------------------------------------------
(* Program images the loader writes before the first fetch                 *)

Enc(t, x, y, n) == t * 4096 + x * 256 + y * 16 + n
EncKK(t, x, kk) == t * 4096 + x * 256 + kk
EncNNN(t, nnn) == t * 4096 + nnn

CLS == 224
RET == 238

\* the bytes of `words` laid out from address base, high byte first
Image(base, words) ==
    [a \in base .. (base + 2 * Len(words) - 1) |->
        LET w == words[((a - base) \div 2) + 1]
        IN IF (a - base) % 2 = 0 THEN w \div 256 ELSE w % 256]

ZeroDisplay == [i \in {} |-> 0]

\* the machine as constructed: all zero, pc at the program-load address
Fresh(image, display) ==
    [memory |-> image,
     V |-> [r \in Regs |-> 0],
     I |-> 0,
     delay_timer |-> 0,
     sound_timer |-> 0,
     pc |-> PROGRAM_START_ADDRESS,
     sp |-> 0,
     stack |-> [i \in 0 .. (STACK_SIZE - 1) |-> 0],
     keypad |-> [k \in 0 .. (NUM_KEYS - 1) |-> 0],
     display |-> display]

----------------------------------------------------------------------------
(* Bounds of the model                                                     *)

\* deepest chain of nested CALLs among the loaded programs
MaxChain == 17
\* number of executed instructions the history keeps
HistLen == 2
\* the history counters calls and rets stop counting here
CountCap == 40

\* number of fetches outside memory[] a run is followed through
MaxStray == 2

\* operand values the loaded programs put in registers
ByteSamples == {0, 1, 128, 255}
\* bytes get_random_byte() returns
RandBytes == {0, 165, 255}
\* display contents at the start of a run that clears the display
DisplaySamples ==
    { [i \in {DISPLAY_BYTES - 1} |-> 1],
      [i \in {0, DISPLAY_BYTES - 1} |-> 128],
      [i \in {8 * r : r \in 0 .. (DISPLAY_HEIGHT - 1)} |-> 255] }

Start == PROGRAM_START_ADDRESS

\* 1000 at address 0: a jump to itself, where a wild pc of 0 comes to rest
Trap == Image(0, <<EncNNN(1, 0)>>)

\* Vx = a and Vy = b are loaded before each of the arithmetic instructions on
\* Vx, Vy; the program ends in a jump to itself
AluProg(x, y, a, b) ==
    Image(Start, << EncKK(6, x, a), EncKK(6, y, b), Enc(8, x, y, 5),
                    EncKK(6, x, a), EncKK(6, y, b), Enc(8, x, y, 7),
                    EncKK(6, x, a), EncKK(6, y, b), Enc(8, x, y, 4),
                    EncKK(6, x, a), EncKK(6, y, b), Enc(8, x, y, 6),
                    EncKK(6, x, a), EncKK(6, y, b), Enc(8, x, y, 14),
                    EncKK(6, x, a), EncKK(7, x, b),
                    EncNNN(1, Start + 34) >>)

\* spec scenario: V3 = 0x10, V4 = 0x20, SUBN V3, V4
SubnProg == Image(Start, << EncKK(6, 3, 16), EncKK(6, 4, 32), Enc(8, 3, 4, 7),
                            EncNNN(1, Start + 6) >>)

\* address of the i-th subroutine of a chain of k; the innermost one may lie at `far`
Sub(i, k, far) == IF i = k /\ far # 0 THEN far ELSE Start + 4 * i

\* main calls sub 1, sub i calls sub i+1 and returns, sub k returns at once:
\* k nested CALLs followed by k RETs
NestProg(k, far) ==
    Image(Start, << EncNNN(2, Sub(1, k, far)), EncNNN(1, Start + 2) >>)
    @@ Image(Sub(k, k, far), << RET >>)
    @@ [a \in (Start + 4) .. (Start + 4 * k - 1) |->
          LET i == (a - Start) \div 4
              w == IF (a - Start) % 4 < 2 THEN EncNNN(2, Sub(i + 1, k, far)) ELSE RET
          IN IF a % 2 = 0 THEN w \div 256 ELSE w % 256]
    @@ Trap

\* RET with nothing on the stack
UnderflowProg == Image(Start, << RET >>) @@ Trap

\* spec scenario: load Vx, skip if equal, CLS, jump back to the start
LoadSkipProg(x, kk) ==
    Image(Start, << EncKK(6, x, kk), EncKK(3, x, kk), CLS, EncNNN(1, Start) >>)

ClsProg == Image(Start, << CLS, EncNNN(1, Start + 2) >>)

\* one of every remaining opcode, ending at a word no handler matches
MiscProg ==
    Image(Start, << 291,                      \* 0123  SYS
                    EncKK(6, 0, 53),          \* V0 = 0x35
                    EncKK(4, 0, 6),           \* skip: V0 # 6
                    CLS,
                    Enc(5, 0, 1, 0),          \* no skip: V0 # V1
                    Enc(9, 0, 1, 0),          \* skip: V0 # V1
                    CLS,
                    EncKK(6, 1, 83),          \* V1 = 0x53
                    Enc(8, 2, 0, 0),          \* V2 = V0
                    Enc(8, 2, 1, 1),          \* V2 |= V1
                    Enc(8, 2, 0, 2),          \* V2 &= V0
                    Enc(8, 2, 1, 3),          \* V2 ^= V1
                    EncNNN(10, 801),          \* I = 0x321
                    EncKK(12, 3, 15),         \* V3 = random & 0x0F
                    CLS,
                    EncNNN(11, Start + 11) >>) \* pc = Start + 11 + V0 = Start + 64
    @@ Image(Start + 64, << Enc(5, 0, 1, 1) >>) \* 5011: no handler

\* Vx = a, then SHR, Vx = a again, then SHL, then ADD Vx, a; Vy holds 255 - a
ShiftProg(x, y, a) ==
    Image(Start, << EncKK(6, y, 255 - a), EncKK(6, x, a), Enc(8, x, y, 6),
                    EncKK(6, x, a), Enc(8, x, y, 14),
                    EncKK(7, x, a),
                    EncNNN(1, Start + 12) >>)

\* CALLs and RETs interleaved: main calls s1 and s2, s1 returns at once,
\* s2 calls s1 and s3 and returns, s3 calls s1 and returns
ZigzagProg ==
    Image(Start, << EncNNN(2, Start + 16), EncNNN(2, Start + 32), EncNNN(1, Start + 4) >>)
    @@ Image(Start + 16, << RET >>)
    @@ Image(Start + 32, << EncNNN(2, Start + 16), EncNNN(2, Start + 48), RET >>)
    @@ Image(Start + 48, << EncNNN(2, Start + 16), RET >>)

\* JP 0xFFF: the next fetch reads memory[4095] and memory[4096]
JumpEndProg == Image(Start, << EncNNN(1, MEMORY_SIZE - 1) >>)

\* V0 = 0xFF, JP V0, 0xFFF: pc = 0xFFF + 0xFF
JumpV0Prog == Image(Start, << EncKK(6, 0, 255), EncNNN(11, MEMORY_SIZE - 1) >>)

\* JP 0xFFE, and at 0xFFE a skip that is taken (SE V0, 0): pc = 0x1002
SkipEndProg ==
    Image(Start, << EncNNN(1, MEMORY_SIZE - 2) >>)
    @@ Image(MEMORY_SIZE - 2, << EncKK(3, 0, 0) >>)

----------------------------------------------------------------------------
(* The run: the driver fetches at pc, then applies the handler the word    *)
(* selects                                                                 *)

\* the machine is constructed and the loader has written `image`
Loaded(image, display) ==
    /\ ch8 = Fresh(image, display)
    /\ prev = Fresh(image, display)
    /\ phase = "fetch"
    /\ ir = 0
    /\ hist = << >>
    /\ calls = 0
    /\ rets = 0
    /\ build = "unknown"
    /\ pending = << >>
    /\ stray = 0

Init ==
    \/ \E x \in Regs, y \in Regs, a \in ByteSamples, b \in ByteSamples :
          Loaded(AluProg(x, y, a, b), ZeroDisplay)
    \/ Loaded(SubnProg, ZeroDisplay)
    \/ Loaded(UnderflowProg, ZeroDisplay)
    \/ \E d \in DisplaySamples \cup {ZeroDisplay} : Loaded(MiscProg, d)
    \/ \E k \in 1 .. MaxChain, far \in {0, MEMORY_SIZE - 2} :
          Loaded(NestProg(k, far), ZeroDisplay)
    \/ \E x \in Regs, kk \in 0 .. 255 : Loaded(LoadSkipProg(x, kk), ZeroDisplay)
    \/ \E d \in DisplaySamples : Loaded(ClsProg, d)
    \/ \E x \in {0, 14, 15}, y \in {1, 15}, a \in 0 .. 255 :
          Loaded(ShiftProg(x, y, a), ZeroDisplay)
    \/ Loaded(ZigzagProg, ZeroDisplay)
    \/ \E image \in {JumpEndProg, JumpV0Prog, SkipEndProg} : Loaded(image, ZeroDisplay)

Window(h) == IF Len(h) > HistLen THEN Tail(h) ELSE h

Count(n) == IF n < CountCap THEN n + 1 ELSE n

\* the choices an access has: S when it is out of range, else the single d
Outcomes(oob, S, d) == IF oob THEN S ELSE {d}

\* the CALLs and RETs so far were not nested within the 16 entries of stack[]
Unnested == << -1 >>

\* the return address the next RET is to bring back, -1 if there is none
Top(p) == IF p = Unnested \/ p = << >> THEN -1 ELSE p[Len(p)]

\* stack[0] is never written by a CALL made at sp = 0: 15 CALLs can be pending
Push(p, r) ==
    IF p = Unnested \/ Len(p) >= STACK_SIZE - 1 THEN Unnested ELSE Append(p, r)

Pop(p) ==
    IF p = Unnested \/ p = << >> THEN Unnested ELSE SubSeq(p, 1, Len(p) - 1)

Fetch ==
    /\ phase = "fetch"
    /\ MemOOB(ch8.pc + 1) => stray < MaxStray
    /\ stray' = IF MemOOB(ch8.pc + 1) THEN stray + 1 ELSE stray
    /\ pending' = pending
    /\ \E b \in Outcomes(MemOOB(ch8.pc + 1), BuildChoices, build),
          u1 \in Outcomes(MemOOB(ch8.pc), UBBytes, 0),
          u2 \in Outcomes(MemOOB(ch8.pc + 1), UBBytes, 0) :
          LET r == chip8_fetch(ch8, b, u1, u2)
          IN /\ ch8' = r.ch8
             /\ ir' = r.instruction
             /\ build' = IF MemOOB(ch8.pc + 1) THEN b ELSE build
    /\ prev' = ch8
    /\ phase' = "exec"
    /\ UNCHANGED <<hist, calls, rets>>

\* the handler selected by `ir` has run and left the machine c; oob: it made an
\* out-of-range access, under build b
Retire(op, c, oob, b) ==
    /\ ch8' = c
    /\ prev' = ch8
    /\ phase' = IF op = "unrecognized" THEN "stopped" ELSE "fetch"
    /\ hist' = Window(Append(hist, [op |-> op, ir |-> ir, pc0 |-> prev.pc,
                                    sp0 |-> ch8.sp, oob |-> oob,
                                    top |-> Top(pending)]))
    /\ calls' = IF op = "2nnn" THEN Count(calls) ELSE calls
    /\ rets' = IF op = "00ee" THEN Count(rets) ELSE rets
    /\ build' = IF oob THEN b ELSE build
    /\ ir' = ir
    /\ pending' = CASE op = "2nnn" -> Push(pending, ch8.pc)
                     [] op = "00ee" -> Pop(pending)
                     [] OTHER -> pending
    /\ stray' = stray

Selected(op) == phase = "exec" /\ Decode(ir) = op

Exec_0nnn == Selected("0nnn") /\ Retire("0nnn", instr_0nnn(ch8, OpNNN(ir)), FALSE, build)

Exec_00e0 == Selected("00e0") /\ Retire("00e0", instr_00e0_cls(ch8), FALSE, build)

Exec_00ee ==
    /\ Selected("00ee")
    /\ \E b \in Outcomes(StackOOB(ch8.sp), BuildChoices, build),
          u \in Outcomes(StackOOB(ch8.sp), UBWords, 0) :
          Retire("00ee", instr_00ee_ret(ch8, b, u), StackOOB(ch8.sp), b)

Exec_1nnn == Selected("1nnn") /\ Retire("1nnn", instr_1nnn_jp_addr(ch8, OpNNN(ir)), FALSE, build)

Exec_2nnn ==
    /\ Selected("2nnn")
    /\ \E b \in Outcomes(StackOOB(U8(ch8.sp + 1)), BuildChoices, build) :
          Retire("2nnn", instr_2nnn_call_addr(ch8, OpNNN(ir), b),
                 StackOOB(U8(ch8.sp + 1)), b)

Exec_3xkk ==
    Selected("3xkk") /\ Retire("3xkk", instr_3xkk_se_vx_byte(ch8, OpX(ir), OpKK(ir)), FALSE, build)

Exec_4xkk ==
    Selected("4xkk") /\ Retire("4xkk", instr_4xkk_sne_vx_byte(ch8, OpX(ir), OpKK(ir)), FALSE, build)

Exec_5xy0 ==
    Selected("5xy0") /\ Retire("5xy0", instr_5xy0_se_vx_vy(ch8, OpX(ir), OpY(ir)), FALSE, build)

Exec_6xkk ==
    Selected("6xkk") /\ Retire("6xkk", instr_6xkk_ld_vx_byte(ch8, OpX(ir), OpKK(ir)), FALSE, build)

Exec_7xkk ==
    Selected("7xkk") /\ Retire("7xkk", instr_7xkk_add_vx_byte(ch8, OpX(ir), OpKK(ir)), FALSE, build)

Exec_8xy0 ==
    Selected("8xy0") /\ Retire("8xy0", instr_8xy0_ld_vx_vy(ch8, OpX(ir), OpY(ir)), FALSE, build)

Exec_8xy1 ==
    Selected("8xy1") /\ Retire("8xy1", instr_8xy1_or_vx_vy(ch8, OpX(ir), OpY(ir)), FALSE, build)

Exec_8xy2 ==
    Selected("8xy2") /\ Retire("8xy2", instr_8xy2_and_vx_vy(ch8, OpX(ir), OpY(ir)), FALSE, build)

Exec_8xy3 ==
    Selected("8xy3") /\ Retire("8xy3", instr_8xy3_xor_vx_vy(ch8, OpX(ir), OpY(ir)), FALSE, build)

Exec_8xy4 ==
    Selected("8xy4") /\ Retire("8xy4", instr_8xy4_add_vx_vy(ch8, OpX(ir), OpY(ir)), FALSE, build)

Exec_8xy5 ==
    Selected("8xy5") /\ Retire("8xy5", instr_8xy5_sub_vx_vy(ch8, OpX(ir), OpY(ir)), FALSE, build)

Exec_8xy6 == Selected("8xy6") /\ Retire("8xy6", instr_8xy6_shr_vx(ch8, OpX(ir)), FALSE, build)

Exec_8xy7 ==
    Selected("8xy7") /\ Retire("8xy7", instr_8xy7_subn_vx_vy(ch8, OpX(ir), OpY(ir)), FALSE, build)

Exec_8xye == Selected("8xye") /\ Retire("8xye", instr_8xye_shl_vx(ch8, OpX(ir)), FALSE, build)

Exec_9xy0 ==
    Selected("9xy0") /\ Retire("9xy0", instr_9xy0_sne_vx_vy(ch8, OpX(ir), OpY(ir)), FALSE, build)

Exec_annn == Selected("annn") /\ Retire("annn", instr_annn_ld_i_addr(ch8, OpNNN(ir)), FALSE, build)

Exec_bnnn ==
    Selected("bnnn") /\ Retire("bnnn", instr_bnnn_jp_v0_addr(ch8, OpNNN(ir)), FALSE, build)

Exec_cxkk ==
    /\ Selected("cxkk")
    /\ \E byte \in RandBytes :
          Retire("cxkk", cxkk_rnd_vx_byte(ch8, OpX(ir), OpKK(ir), byte), FALSE, build)

\* no handler matches the word: the driver stops the run, the machine untouched
Exec_unrecognized == Selected("unrecognized") /\ Retire("unrecognized", ch8, FALSE, build)

Next ==
    \/ Fetch
    \/ Exec_0nnn \/ Exec_00e0 \/ Exec_00ee \/ Exec_1nnn \/ Exec_2nnn
    \/ Exec_3xkk \/ Exec_4xkk \/ Exec_5xy0 \/ Exec_6xkk \/ Exec_7xkk
    \/ Exec_8xy0 \/ Exec_8xy1 \/ Exec_8xy2 \/ Exec_8xy3 \/ Exec_8xy4
    \/ Exec_8xy5 \/ Exec_8xy6 \/ Exec_8xy7 \/ Exec_8xye \/ Exec_9xy0
    \/ Exec_annn \/ Exec_bnnn \/ Exec_cxkk
    \/ Exec_unrecognized

Spec == Init /\ [][Next]_vars

----------------------------------------------------------------------------
(* Properties.  In a state reached by a handler (phase = "fetch", hist not  *)
(* empty) prev is the machine the handler was applied to, ir the word it    *)
(* was selected by and ch8 the machine it left.  In a state reached by      *)
(* chip8_fetch (phase = "exec") prev is the machine before the fetch.       *)

Latest == hist[Len(hist)]
Before == hist[Len(hist) - 1]

After(op) == phase = "fetch" /\ Len(hist) >= 1 /\ Latest.op = op

\* two instructions executed one after the other: op1, then op2
AfterPair(op1, op2) == After(op2) /\ Len(hist) >= 2 /\ Before.op = op1

Flag(cond) == IF cond THEN 1 ELSE 0

(* C1: 8xy5 leaves V[F] = 1 iff a > b (else 0) and V[x] = (a - b) mod 256,  *)
(* a = V[x] and b = V[y] before the instruction, for all x, y in 0..15.     *)
C1_SubBorrowAnyRegisters ==
    After("8xy5") =>
        LET x == OpX(ir)
            y == OpY(ir)
            a == prev.V[x]
            b == prev.V[y]
        IN /\ ch8.V[15] = Flag(a > b)
           /\ ch8.V[x] = (a - b) % 256

(* C2: from a fresh machine 16 nested CALLs succeed (the return address is  *)
(* saved in stack[0..15], pc = nnn), and the 17th reports stack overflow,   *)
(* writes nothing past stack[15] and does not leave sp at 16 or above.      *)
C2_SeventeenthCallOverflow ==
    (After("2nnn") /\ rets = 0) =>
        /\ calls <= 16 =>
              /\ ~Latest.oob
              /\ ch8.sp < STACK_SIZE
              /\ ch8.stack[ch8.sp] = prev.pc
              /\ ch8.pc = OpNNN(ir)
        /\ calls = 17 =>
              /\ HandlerResult = "stack_overflow"
              /\ ~Latest.oob
              /\ ch8.sp < STACK_SIZE
              /\ ch8.stack = prev.stack

(* C3: with sp < 15, a 2nnn fetched at p and executed, then 00EE executed,  *)
(* leaves pc = p + 2 and sp as it was before the CALL.                      *)
C3_CallThenRet ==
    (AfterPair("2nnn", "00ee") /\ Before.sp0 < 15) =>
        /\ ch8.pc = U16(Before.pc0 + 2)
        /\ ch8.sp = Before.sp0

C3_Witness ==
    /\ AfterPair("2nnn", "00ee")
    /\ Before.sp0 = 14
    /\ OpNNN(Before.ir) = MEMORY_SIZE - 2
    /\ ch8.pc = Before.pc0 + 2

(* C4: 00EE with sp = 0 is reported as stack underflow; sp stays within     *)
(* 0..15 and pc is not loaded from the stack.                               *)
C4_RetUnderflowReported ==
    (After("00ee") /\ Latest.sp0 = 0) =>
        /\ HandlerResult = "stack_underflow"
        /\ ch8.sp \in 0 .. (STACK_SIZE - 1)
        /\ ch8.pc = prev.pc

(* C5 as stated: 8xy4 leaves V[x] = (a + b) mod 256 and V[F] = 1 iff        *)
(* a + b > 255, for all x, y in 0..15.                                      *)
C5_AddCarryAnyRegisters ==
    After("8xy4") =>
        LET x == OpX(ir)
            y == OpY(ir)
            a == prev.V[x]
            b == prev.V[y]
        IN /\ ch8.V[x] = (a + b) % 256
           /\ ch8.V[15] = Flag(a + b > 255)

(* C5 amended: 8xy4 leaves V[x] = (a + b) mod 256 for all x, y in 0..15,    *)
(* and V[F] = 1 iff a + b > 255 (else 0) whenever x # 0xF.                  *)
C5_AddCarry ==
    After("8xy4") =>
        LET x == OpX(ir)
            y == OpY(ir)
            a == prev.V[x]
            b == prev.V[y]
        IN /\ ch8.V[x] = (a + b) % 256
           /\ x # 15 => ch8.V[15] = Flag(a + b > 255)

C5_Witness ==
    /\ After("8xy4")
    /\ OpX(ir) # 15
    /\ OpY(ir) = 15
    /\ prev.V[OpX(ir)] + prev.V[15] > 255
    /\ prev.V[15] = 128
    /\ ch8.V[15] = 1

(* C6 as stated: 6xkk at pc_before and 3xkk at pc_before + 2, fetched and   *)
(* executed in order, leave pc = pc_before + 4.                             *)
C6_LoadSkipPlus4 ==
    (/\ AfterPair("6xkk", "3xkk")
     /\ Latest.pc0 = Before.pc0 + 2
     /\ OpX(Latest.ir) = OpX(Before.ir)
     /\ OpKK(Latest.ir) = OpKK(Before.ir))
    => ch8.pc = U16(Before.pc0 + 4)

(* C6 amended: 6xkk at pc_before and 3xkk at pc_before + 2, fetched and     *)
(* executed in order, leave pc = pc_before + 6: each fetch adds 2 and the   *)
(* skip adds 2 more.                                                        *)
C6_LoadSkip ==
    (/\ AfterPair("6xkk", "3xkk")
     /\ Latest.pc0 = Before.pc0 + 2
     /\ OpX(Latest.ir) = OpX(Before.ir)
     /\ OpKK(Latest.ir) = OpKK(Before.ir))
    => ch8.pc = U16(Before.pc0 + 6)

C6_Witness ==
    /\ AfterPair("6xkk", "3xkk")
    /\ Before.pc0 = Start
    /\ Latest.pc0 = Start + 2
    /\ Before.ir = EncKK(6, 10, 5)
    /\ Latest.ir = EncKK(3, 10, 5)
    /\ ch8.pc = Start + 6

(* C7: 8xy7 leaves V[F] = 1 iff b > a (else 0) and V[x] = (b - a) mod 256,  *)
(* a = V[x] and b = V[y] before the instruction, for all x, y in 0..15; in  *)
(* particular V3 = 0x10, V4 = 0x20, 8347 gives V[F] = 1 and V3 = 0x10.      *)
C7_SubnBorrowAnyRegisters ==
    After("8xy7") =>
        LET x == OpX(ir)
            y == OpY(ir)
            a == prev.V[x]
            b == prev.V[y]
        IN /\ ch8.V[15] = Flag(b > a)
           /\ ch8.V[x] = (b - a) % 256
           /\ (ir = Enc(8, 3, 4, 7) /\ a = 16 /\ b = 32) => (ch8.V[15] = 1 /\ ch8.V[3] = 16)

(* C8: chip8_fetch with pc <= 4094 returns memory[pc] * 256 + memory[pc+1]  *)
(* and adds exactly 2 to pc; memory and every other field are unchanged.    *)
C8_FetchContract ==
    (phase = "exec" /\ prev.pc <= MEMORY_SIZE - 2) =>
        /\ ir = MemAt(prev, prev.pc) * 256 + MemAt(prev, prev.pc + 1)
        /\ ch8 = [prev EXCEPT !.pc = prev.pc + 2]

C8_Witness ==
    /\ phase = "exec"
    /\ prev.pc = MEMORY_SIZE - 2
    /\ MemAt(prev, prev.pc) # MemAt(prev, prev.pc + 1)
    /\ ir = RET
    /\ prev.sp > 0

(* C9: 00E0 leaves all 256 bytes of the display 0 and changes no other      *)
(* field of the machine.                                                    *)
C9_ClsContract ==
    After("00e0") =>
        /\ \A i \in 0 .. 255 : At(ch8.display, i) = 0
        /\ [ch8 EXCEPT !.display = prev.display] = prev

C9_Witness ==
    /\ After("00e0")
    /\ At(prev.display, 0) # 0
    /\ At(prev.display, 255) # 0
    /\ prev.V[0] # 0
    /\ prev.I # 0
    /\ \A i \in 0 .. 255 : At(ch8.display, i) = 0

\* the opcodes that write the flag V[F]
FlagOps == {"8xy4", "8xy5", "8xy6", "8xy7", "8xye"}

\* the flag of a flag-writing opcode, from the operands a = V[x] and b = V[y]
FlagOf(op, a, b) ==
    CASE op = "8xy4" -> Flag(a + b > 255)
      [] op = "8xy5" -> Flag(a > b)
      [] op = "8xy6" -> a % 2
      [] op = "8xy7" -> Flag(b > a)
      [] op = "8xye" -> a \div 128

\* its arithmetic result, from the same operands
ResultOf(op, a, b) ==
    CASE op = "8xy4" -> (a + b) % 256
      [] op = "8xy5" -> (a - b) % 256
      [] op = "8xy6" -> a \div 2
      [] op = "8xy7" -> (b - a) % 256
      [] op = "8xye" -> (2 * a) % 256

(* C11: for 8xy4, 8xy5, 8xy6, 8xy7, 8xyE and all x, y in 0..15 the flag and *)
(* the arithmetic result are both computed from V[x] and V[y] as they were  *)
(* before the instruction: V[F] is that flag and V[x] that result, and with *)
(* x = 0xF, where one register receives both, V[F] is one of the two.       *)
C11_FlagFromOperandsBefore ==
    \A op \in FlagOps :
        After(op) =>
            LET x == OpX(ir)
                y == OpY(ir)
                a == prev.V[x]
                b == prev.V[y]
            IN IF x # 15
               THEN /\ ch8.V[15] = FlagOf(op, a, b)
                    /\ ch8.V[x] = ResultOf(op, a, b)
               ELSE ch8.V[15] \in {FlagOf(op, a, b), ResultOf(op, a, b)}

(* C12: in every state reached from the fresh machine 0 <= sp < 16, and     *)
(* every stack read or write of a handler used an index in 0..15.           *)
C12_StackPointerInRange ==
    /\ ch8.sp \in 0 .. (STACK_SIZE - 1)
    /\ (After("2nnn") \/ After("00ee")) => ~Latest.oob

(* C13: before every fetch of a run started at pc = 0x200, pc lies in       *)
(* 0 .. MEMORY_SIZE - 2, so that memory[pc] and memory[pc + 1] are in       *)
(* bounds.                                                                  *)
C13_PcFetchable ==
    phase = "fetch" => ch8.pc \in 0 .. (MEMORY_SIZE - 2)

C15_AddByteNoFlag ==
    After("7xkk") =>
        LET x == OpX(ir)
            a == prev.V[x]
        IN /\ ch8.V[x] = (a + OpKK(ir)) % 256
           /\ [ch8 EXCEPT !.V[x] = prev.V[x]] = prev

C15_Witness ==
    /\ After("7xkk")
    /\ OpX(ir) = 0
    /\ OpKK(ir) = 100
    /\ prev.V[0] = 200
    /\ prev.V[15] = 0
    /\ ch8.V[0] = 44
    /\ ch8.V[15] = 0

(* C16: no step of the engine (chip8_fetch or a handler) changes            *)
(* delay_timer, sound_timer or a keypad entry, and the display changes only *)
(* across a 00E0 step.                                                      *)
C16_TimersKeypadDisplayFrame ==
    /\ ch8.delay_timer = prev.delay_timer
    /\ ch8.sound_timer = prev.sound_timer
    /\ ch8.keypad = prev.keypad
    /\ ch8.display # prev.display => After("00e0")

(* C17: while the CALLs made from sp = 0 are nested at most 15 deep, each   *)
(* 00EE sets pc to the return address of the latest CALL not yet returned   *)
(* from (so n CALLs with return addresses r1..rn followed by n RETs give    *)
(* rn, ..., r1), leaves sp at the number of CALLs still pending (0 after    *)
(* the last RET) and modifies no stack entry.                               *)
C17_CallRetLifo ==
    (After("00ee") /\ Latest.top >= 0) =>
        /\ ch8.pc = Latest.top
        /\ ch8.sp = Len(pending)
        /\ ch8.stack = prev.stack

C17_Witness ==
    /\ After("00ee")
    /\ calls = 15
    /\ rets = 15
    /\ Latest.top = Start + 2
    /\ pending = << >>
    /\ ch8.pc = Start + 2
    /\ ch8.sp = 0
    /\ \A i \in 1 .. 15 : ch8.stack[i] = Start + 4 * i - 2

====
